---- MODULE Spec2Model ----
(***************************************************************************)
(* The update-status command of ac-task: one invocation of                 *)
(* updateStatusHandler (src/commands/update-status.ts), made of            *)
(* updateTaskCompletionStatus (canonical endpoint, then fallback),         *)
(* verifyTaskStatus (read-after-write with bounded backoff) and the        *)
(* output / handleError epilogue.  The remote API is the environment: it   *)
(* answers every outstanding request with any response it can produce.     *)
(***************************************************************************)
EXTENDS Integers, Sequences, FiniteSets, TLC

\* ------------------------------------------------------------------ bounds

\* Task ids given on the command line range over -1 .. MaxTaskId.
MaxTaskId == 2
\* Project ids found in .ac-task.json range over 1 .. MaxProjectId.
MaxProjectId == 1
\* list and show fetch at most MaxTasks tasks / subtasks.
MaxTasks == 2
\* verifyTaskStatus taken alone is called with maxRetries in 0 .. MaxRetriesArg.
MaxRetriesArg == 4

\* ------------------------------------------------------- program constants

\* verifyTaskStatus(..., maxRetries = 3)
DefaultMaxRetries == 3

\* const delays = [500, 1000, 2000]; // ms backoff
delays == <<500, 1000, 2000>>

\* ------------------------------------------------------------------ inputs

\* <status> argument as typed by the user.
StatusArgs == {"done", "DONE", "open", "closed"}

\* String.prototype.toLowerCase on the strings above.
ToLowerCase(s) ==
    CASE s = "DONE" -> "done"
      [] OTHER -> s

\* <task_id> argument: a decimal integer literal ("2"), a literal followed by
\* other characters ("2abc", "2.5": kind "prefixed", n the leading literal),
\* or a non-numeric word.
TaskIdArgs ==
    [kind : {"int"}, n : (-1) .. MaxTaskId]
      \cup {[kind |-> "prefixed", n |-> MaxTaskId], [kind |-> "word", n |-> 0]}

\* parseInt(taskId, 10): the leading integer literal, whatever follows it;
\* NaN for a string that does not start with one.
ParseInt(a) ==
    IF a.kind \in {"int", "prefixed"} THEN [nan |-> FALSE, n |-> a.n]
                                      ELSE [nan |-> TRUE, n |-> 0]

\* options.format as given with --format.
FormatArgs == {"human", "json", "yaml"}

\* getFormat: anything but 'json' is 'human'.
getFormat(f) == IF f = "json" THEN "json" ELSE "human"

\* ~/.ac-task/config.json: absent, or present with the environment variable
\* named by token_env_var set or unset.
GlobalConfigs == {"absent", "env_token_set", "env_token_unset"}

\* .ac-task.json: absent (0) or holding a project_id.
ProjectConfigs == 0 .. MaxProjectId

\* ------------------------------------------------------------ remote data

\* Encodings of is_completed the API may return (boolean | number).
Flags == {"true", "false", "1", "0"}

NormalizeCompleted_BoolOnly(flag) == flag = "true"

\* task.is_completed === true || task.is_completed === 1
NormalizeCompleted(flag) == flag = "true" \/ flag = "1"

\* HTTP statuses outside 2xx the remote is taken to answer with.
ErrStatuses == {401, 403, 404, 405, 422, 500}

OkResponses ==
    [ok : {TRUE}, hasResponse : {TRUE}, status : {200},
     wrapped : BOOLEAN, flag : Flags]

HttpErrorResponses ==
    [ok : {FALSE}, hasResponse : {TRUE}, status : ErrStatuses,
     wrapped : {FALSE}, flag : {"false"}]

\* No response at all: connection refused, DNS failure, 30 s timeout.
NoResponse ==
    [ok |-> FALSE, hasResponse |-> FALSE, status |-> 0,
     wrapped |-> FALSE, flag |-> "false"]

Responses == OkResponses \cup HttpErrorResponses \cup {NoResponse}

\* const task: ACTask = response.data.single || response.data
TaskOf(resp) == [is_completed |-> resp.flag]

NoTask == [is_completed |-> "none"]

\* ------------------------------------------------------------------ errors

NoError == [cls |-> "none", type |-> "none", code |-> -1, responseStatus |-> 0]

ACTaskError(type, code) ==
    [cls |-> "ACTaskError", type |-> type, code |-> code, responseStatus |-> 0]

fromAxiosError_No403(resp) ==
    IF ~resp.hasResponse THEN ACTaskError("NETWORK_ERROR", 0)
    ELSE IF resp.status = 401 THEN ACTaskError("AUTH_ERROR", 401)
    ELSE ACTaskError("API_ERROR", resp.status)

\* fromAxiosError: the ACTaskError built from a failed response.  The result
\* has no `response` property (responseStatus 0 stands for undefined).
fromAxiosError(resp) ==
    IF ~resp.hasResponse THEN ACTaskError("NETWORK_ERROR", 0)
    ELSE IF resp.status = 401 THEN ACTaskError("AUTH_ERROR", 401)
    ELSE IF resp.status = 403 THEN ACTaskError("AUTH_ERROR", 403)
    ELSE IF resp.status = 404 THEN ACTaskError("API_ERROR", 404)
    ELSE ACTaskError("API_ERROR", resp.status)

\* The response interceptor installed by createClient: every rejection of a
\* request is rethrown as fromAxiosError(error).
Interceptor(resp) == fromAxiosError(resp)

\* ---------------------------------------------------------------- requests

NoBody == [is_completed |-> "absent", completed_on |-> "absent"]

CanonicalRequest_Generic(complete, taskId) ==
    [method |-> "PUT",
     path |-> [kind |-> "projects_tasks", project |-> 0, task |-> taskId],
     body |-> [is_completed |-> IF complete THEN "1" ELSE "0",
               completed_on |-> "absent"]]

\* complete ? `/complete/task/${taskId}` : `/open/task/${taskId}`, body {}
CanonicalRequest(complete, taskId) ==
    [method |-> "PUT",
     path |-> [kind |-> IF complete THEN "complete" ELSE "open",
               project |-> 0, task |-> taskId],
     body |-> NoBody]

FallbackRequest_FlagOnly(complete, project, taskId) ==
    [method |-> "PUT",
     path |-> [kind |-> "projects_tasks", project |-> project, task |-> taskId],
     body |-> [is_completed |-> IF complete THEN "1" ELSE "0",
               completed_on |-> "absent"]]

\* PUT `/projects/${projectId}/tasks/${taskId}` with completed_on set/cleared
FallbackRequest(complete, project, taskId) ==
    [method |-> "PUT",
     path |-> [kind |-> "projects_tasks", project |-> project, task |-> taskId],
     body |-> IF complete
              THEN [is_completed |-> "1", completed_on |-> "now"]
              ELSE [is_completed |-> "0", completed_on |-> "null"]]

\* GET `/projects/${projectId}/tasks/${taskId}`
ReadRequest(project, taskId) ==
    [method |-> "GET",
     path |-> [kind |-> "projects_tasks", project |-> project, task |-> taskId],
     body |-> NoBody]

NoRequest ==
    [method |-> "none", path |-> [kind |-> "none", project |-> 0, task |-> 0],
     body |-> NoBody]

\* ------------------------------------------------------------------- state

VARIABLES
    args,               \* [status, taskId, format]: the command line
    env,                \* [globalConfig, projectConfig]: files and environment
    pc,                 \* position of the handler
    expectedCompleted,  \* normalizedStatus === 'done'
    projectId,          \* projectConfig.project_id
    id,                 \* parseInt(taskId, 10)
    attempt,            \* loop counter of verifyTaskStatus
    maxRetries,         \* parameter of verifyTaskStatus
    task,               \* record returned by the last successful read
    error,              \* the error thrown, on its way to handleError
    inflight,           \* requests sent and not yet answered
    trace,              \* everything the invocation did, in order
    out,                \* what the command printed, and its exit code
    rep,                \* a list / show invocation: what it fetched and printed
    del,                \* a delete invocation
    pg,                 \* a fetchAllPages call
    au                  \* auth setup and the commands run after it

vars == <<del, pg, au, rep, args, env, pc, expectedCompleted, projectId, id, attempt, maxRetries,
          task, error, inflight, trace, out>>

NoResp == NoResponse

SendEv(req)       == [ev |-> "send",  req |-> req, resp |-> NoResp, ms |-> 0]
\* The trace keeps what the caller sees of a response: status and task, not
\* whether the task came bare or under `single`.
RecvEv(req, resp) ==
    [ev |-> "recv", req |-> req, resp |-> [resp EXCEPT !.wrapped = FALSE], ms |-> 0]
DelayEv(ms)       == [ev |-> "delay", req |-> NoRequest, resp |-> NoResp, ms |-> ms]

\* No list / show command is running.
NoReport ==
    [cmd |-> "none", closed |-> FALSE, all |-> FALSE, tasks |-> <<>>,
     subtasks |-> <<>>, phase |-> "none", json |-> <<>>, subjson |-> <<>>]

\* No delete command is running.
NoDelete == [pc |-> "none"]

\* No fetchAllPages call is running.
NoPages ==
    [pc |-> "none", maxPages |-> 0, page |-> 0, sent |-> <<>>, got |-> <<>>,
     results |-> 0]

\* No auth command is running.
NoAuth == [pc |-> "none"]

NoOutput ==
    [kind |-> "none", stream |-> "none", exit |-> -1, success |-> FALSE,
     is_completed |-> FALSE, warning |-> FALSE, type |-> "none", code |-> -1,
     fields |-> {}]

Init ==
    /\ args \in [status : StatusArgs, taskId : TaskIdArgs, format : FormatArgs]
    /\ env \in [globalConfig : GlobalConfigs, projectConfig : ProjectConfigs]
    /\ pc = "start"
    /\ expectedCompleted = FALSE
    /\ projectId = 0
    /\ id = 0
    /\ attempt = 0
    /\ maxRetries = DefaultMaxRetries
    /\ task = NoTask
    /\ error = NoError
    /\ inflight = {}
    /\ trace = <<>>
    /\ out = NoOutput
    /\ rep = NoReport
    /\ del = NoDelete
    /\ pg = NoPages
    /\ au = NoAuth

Throw(e) ==
    /\ error' = e
    /\ pc' = "handle_error"

\* updateStatusHandler up to the call of updateTaskCompletionStatus:
\* validation of the status, the configuration, the task id, and getClient().
Validate ==
    /\ pc = "start"
    /\ LET normalizedStatus == ToLowerCase(args.status)
           parsed == ParseInt(args.taskId)
       IN  IF normalizedStatus # "done" /\ normalizedStatus # "open"
             THEN Throw(ACTaskError("VALIDATION_ERROR", 1))
                  /\ UNCHANGED <<expectedCompleted, projectId, id>>
           ELSE IF env.globalConfig = "absent"
             THEN Throw(ACTaskError("CONFIGURATION_ERROR", 1))
                  /\ UNCHANGED <<expectedCompleted, projectId, id>>
           ELSE IF env.projectConfig = 0
             THEN Throw(ACTaskError("CONFIGURATION_ERROR", 1))
                  /\ UNCHANGED <<expectedCompleted, projectId, id>>
           ELSE IF parsed.nan \/ parsed.n <= 0
             THEN Throw(ACTaskError("VALIDATION_ERROR", 1))
                  /\ projectId' = env.projectConfig
                  /\ UNCHANGED <<expectedCompleted, id>>
           ELSE IF env.globalConfig # "env_token_set"
             THEN Throw(ACTaskError("CONFIGURATION_ERROR", 1))
                  /\ projectId' = env.projectConfig
                  /\ id' = parsed.n
                  /\ UNCHANGED expectedCompleted
           ELSE /\ projectId' = env.projectConfig
                /\ id' = parsed.n
                /\ expectedCompleted' = (normalizedStatus = "done")
                /\ pc' = "canonical"
                /\ UNCHANGED error
    /\ UNCHANGED <<del, pg, au, rep, args, env, attempt, maxRetries, task, inflight, trace, out>>

\* --------------------------------------------- updateTaskCompletionStatus

\* client.put / client.get: the request leaves and the caller awaits it.
Send(req) ==
    /\ inflight' = inflight \cup {req}
    /\ trace' = Append(trace, SendEv(req))

\* The awaited request is answered (or fails) with resp.
Receive(req, resp) ==
    /\ req \in inflight
    /\ inflight' = inflight \ {req}
    /\ trace' = Append(trace, RecvEv(req, resp))

\* const response = await client.put(canonicalEndpoint, {})  -- the call
CanonicalSend ==
    /\ pc = "canonical"
    /\ Send(CanonicalRequest(expectedCompleted, id))
    /\ pc' = "canonical_wait"
    /\ UNCHANGED <<del, pg, au, rep, args, env, expectedCompleted, projectId, id, attempt,
                   maxRetries, task, error, out>>

ShouldFallback_Never(err) == FALSE

ShouldFallback_StatusOnly(err) ==
    err.responseStatus = 404 \/ err.responseStatus = 405

\* err instanceof ACTaskError || err.response?.status === 404
\*                            || err.response?.status === 405
ShouldFallback(err) ==
    \/ err.cls = "ACTaskError"
    \/ err.responseStatus = 404
    \/ err.responseStatus = 405

\* The canonical call returns: the task on success; on failure the catch
\* block either goes on to the fallback or rethrows.
CanonicalReturn ==
    /\ pc = "canonical_wait"
    /\ \E resp \in Responses :
         /\ Receive(CanonicalRequest(expectedCompleted, id), resp)
         /\ IF resp.ok
              THEN /\ pc' = "verify"
                   /\ UNCHANGED error
              ELSE LET err == Interceptor(resp)
                   IN  IF ShouldFallback(err)
                         THEN /\ pc' = "fallback"
                              /\ UNCHANGED error
                         ELSE Throw(err)
    /\ UNCHANGED <<del, pg, au, rep, args, env, expectedCompleted, projectId, id, attempt,
                   maxRetries, task, out>>

\* const fallbackResponse = await client.put(`/projects/...`, payload)
FallbackSend ==
    /\ pc = "fallback"
    /\ Send(FallbackRequest(expectedCompleted, projectId, id))
    /\ pc' = "fallback_wait"
    /\ UNCHANGED <<del, pg, au, rep, args, env, expectedCompleted, projectId, id, attempt,
                   maxRetries, task, error, out>>

FallbackFailed_Retry(err) ==
    /\ pc' = "fallback"
    /\ UNCHANGED error

FallbackFailed_Ignored(err) ==
    /\ pc' = "verify"
    /\ UNCHANGED error

\* A failure of the fallback call is thrown inside the catch block: nothing
\* catches it before updateStatusHandler's own catch.
FallbackFailed(err) == Throw(err)

\* The fallback call returns the task, or its failure propagates.
FallbackReturn ==
    /\ pc = "fallback_wait"
    /\ \E resp \in Responses :
         /\ Receive(FallbackRequest(expectedCompleted, projectId, id), resp)
         /\ IF resp.ok
              THEN /\ pc' = "verify"
                   /\ UNCHANGED error
              ELSE FallbackFailed(Interceptor(resp))
    /\ UNCHANGED <<del, pg, au, rep, args, env, expectedCompleted, projectId, id, attempt,
                   maxRetries, task, out>>

\* ------------------------------------------------------- verifyTaskStatus

LoopContinues_Strict(a, m) == a < m

\* for (...; attempt <= maxRetries; ...)
LoopContinues(a, m) == a <= m

RetryRemains_Inclusive(a, m) == a <= m

\* if (attempt < maxRetries)
RetryRemains(a, m) == a < m

NextAttempt_Stuck(a) == a

\* attempt++
NextAttempt(a) == a + 1

DelayFor_First(a) == delays[1]

DelayFor_Doubled(a) == IF a + 1 \in DOMAIN delays THEN 2 * delays[a + 1] ELSE 0

\* delays[attempt]; past the end of the array it is undefined, which
\* setTimeout takes as the minimal delay (0 here).
DelayFor(a) == IF a + 1 \in DOMAIN delays THEN delays[a + 1] ELSE 0

ReadMatches_CompleteOnly(actual, expected) == actual

\* if (actualCompleted === expectedCompleted)
ReadMatches(actual, expected) == actual = expected

VerifyRead_NoAwait ==
    /\ pc = "verify"
    /\ Send(ReadRequest(projectId, id))
    /\ pc' \in {"verify", "verify_wait"}
    /\ UNCHANGED <<del, pg, au, rep, args, env, expectedCompleted, projectId, id, attempt,
                   maxRetries, task, error, out>>

\* const response = await client.get(`/projects/${projectId}/tasks/${taskId}`)
VerifyRead ==
    /\ pc = "verify"
    /\ Send(ReadRequest(projectId, id))
    /\ pc' = "verify_wait"
    /\ UNCHANGED <<del, pg, au, rep, args, env, expectedCompleted, projectId, id, attempt,
                   maxRetries, task, error, out>>

ReadFailed_Retry(err) ==
    /\ pc' = "delay"
    /\ UNCHANGED error

\* A rejected client.get is not caught in verifyTaskStatus: it propagates to
\* the catch of updateStatusHandler.
ReadFailed(err) == Throw(err)

\* The read returns: a failure propagates; a matching record is returned;
\* a mismatch is retried after the backoff if attempts remain, and returned
\* as it is otherwise.
VerifyReturn ==
    /\ pc = "verify_wait"
    /\ \E resp \in Responses :
         /\ Receive(ReadRequest(projectId, id), resp)
         /\ IF ~resp.ok
              THEN /\ ReadFailed(Interceptor(resp))
                   /\ UNCHANGED task
              ELSE LET t == TaskOf(resp)
                       actualCompleted == NormalizeCompleted(t.is_completed)
                   IN  /\ task' = t
                       /\ UNCHANGED error
                       /\ IF ReadMatches(actualCompleted, expectedCompleted)
                            THEN pc' = "output"
                            ELSE IF RetryRemains(attempt, maxRetries)
                                   THEN pc' = "delay"
                                   ELSE pc' = "output"
    /\ UNCHANGED <<del, pg, au, rep, args, env, expectedCompleted, projectId, id, attempt,
                   maxRetries, out>>

\* await delay(delays[attempt]), then attempt++ and the loop test; falling
\* out of the loop throws 'Failed to verify task status after retries'.
Backoff ==
    /\ pc = "delay"
    /\ trace' = Append(trace, DelayEv(DelayFor(attempt)))
    /\ attempt' = NextAttempt(attempt)
    /\ IF LoopContinues(attempt', maxRetries)
         THEN /\ pc' = "verify"
              /\ UNCHANGED error
         ELSE Throw(ACTaskError("API_ERROR", 1))
    /\ UNCHANGED <<del, pg, au, rep, args, env, expectedCompleted, projectId, id, maxRetries,
                   task, inflight, out>>

\* ---------------------------------------------------------------- epilogue

ReportedCompleted_Requested(t, expected) == expected

\* const actualCompleted = task.is_completed === true || task.is_completed === 1
\* the state the handler reports, taken from the record verifyTaskStatus returned.
ReportedCompleted(t, expected) == NormalizeCompleted(t.is_completed)

WarningPresent_Never(actual, expected) == FALSE

\* actualCompleted !== expectedCompleted: the `warning` field of the JSON
\* result and the warning line of the human output.
WarningPresent(actual, expected) == actual # expected

\* The keys of the JSON object given to output(): success, task, and warning
\* when the states differ; the human output is text and has none.
ResultFields(format, warning) ==
    IF format = "json"
      THEN {"success", "task"} \cup (IF warning THEN {"warning"} ELSE {})
      ELSE {}

\* The result printed after verification: JSON object or human text.
Output ==
    /\ pc = "output"
    /\ LET actualCompleted == ReportedCompleted(task, expectedCompleted)
           format == getFormat(args.format)
       IN  out' = [kind |-> "result",
                   stream |-> "stdout",
                   exit |-> 0,
                   success |-> IF format = "json"
                                 THEN actualCompleted = expectedCompleted
                                 ELSE TRUE,
                   is_completed |-> actualCompleted,
                   warning |-> WarningPresent(actualCompleted, expectedCompleted),
                   type |-> "none",
                   code |-> -1,
                   fields |-> ResultFields(format,
                                WarningPresent(actualCompleted, expectedCompleted))]
    /\ pc' = "exit0"
    /\ UNCHANGED <<del, pg, au, rep, args, env, expectedCompleted, projectId, id, attempt,
                   maxRetries, task, error, inflight, trace>>

ErrorStream_Stderr(format) == "stderr"

\* handleError: console.log for json, console.error otherwise.
ErrorStream(format) == IF format = "json" THEN "stdout" ELSE "stderr"

\* handleError: the envelope on stdout (json) or the message on stderr
\* (human), then process.exit(1).
HandleError ==
    /\ pc = "handle_error"
    /\ out' = [kind |-> "error",
               stream |-> ErrorStream(getFormat(args.format)),
               exit |-> 1,
               success |-> FALSE,
               is_completed |-> FALSE,
               warning |-> FALSE,
               type |-> error.type,
               code |-> error.code,
               fields |-> IF getFormat(args.format) = "json"
                            THEN {"error"} ELSE {}]
    /\ pc' = "exit1"
    /\ UNCHANGED <<del, pg, au, rep, args, env, expectedCompleted, projectId, id, attempt,
                   maxRetries, task, error, inflight, trace>>

Next ==
    \/ Validate
    \/ CanonicalSend
    \/ CanonicalReturn
    \/ FallbackSend
    \/ FallbackReturn
    \/ VerifyRead
    \/ VerifyReturn
    \/ Backoff
    \/ Output
    \/ HandleError

Spec == Init /\ [][Next]_vars

\* Every awaited call settles (the client has a 30 s timeout) and every
\* setTimeout fires, so the handler always takes its next step.
FairSpec == Spec /\ WF_vars(Next)

\* ------------------------------------------------------- reading the trace

Terminated == pc \in {"exit0", "exit1"}

IsCanonicalReq(r) == r.method = "PUT" /\ r.path.kind \in {"complete", "open"}
IsFallbackReq(r)  == r.method = "PUT" /\ r.path.kind = "projects_tasks"
IsPutReq(r)       == r.method = "PUT"
IsReadReq(r)      == r.method = "GET"

Idx == DOMAIN trace

CanonicalSends == {i \in Idx : trace[i].ev = "send" /\ IsCanonicalReq(trace[i].req)}
FallbackSends  == {i \in Idx : trace[i].ev = "send" /\ IsFallbackReq(trace[i].req)}
PutSends       == {i \in Idx : trace[i].ev = "send" /\ IsPutReq(trace[i].req)}
ReadSends      == {i \in Idx : trace[i].ev = "send" /\ IsReadReq(trace[i].req)}
CanonicalRecvs == {i \in Idx : trace[i].ev = "recv" /\ IsCanonicalReq(trace[i].req)}
FallbackRecvs  == {i \in Idx : trace[i].ev = "recv" /\ IsFallbackReq(trace[i].req)}
PutRecvs       == {i \in Idx : trace[i].ev = "recv" /\ IsPutReq(trace[i].req)}
ReadRecvs      == {i \in Idx : trace[i].ev = "recv" /\ IsReadReq(trace[i].req)}
Delays         == {i \in Idx : trace[i].ev = "delay"}

\* The canonical call failed with a response of status s / with no response.
CanonicalFailedWith(S) ==
    \E i \in CanonicalRecvs :
        /\ ~trace[i].resp.ok
        /\ trace[i].resp.hasResponse
        /\ trace[i].resp.status \in S
CanonicalFailedNoResponse ==
    \E i \in CanonicalRecvs : ~trace[i].resp.ok /\ ~trace[i].resp.hasResponse


CanonicalFailedOtherwise ==
    \E i \in CanonicalRecvs :
        /\ ~trace[i].resp.ok
        /\ ~(trace[i].resp.hasResponse /\ trace[i].resp.status \in {404, 405})

FallbackFailed_Seen == \E i \in FallbackRecvs : ~trace[i].resp.ok

Max(S) == CHOOSE x \in S : \A y \in S : y <= x

\* The events of verifyTaskStatus, in order: its reads and its delays.
VerifierEvents ==
    SelectSeq(trace, LAMBDA e : e.ev = "delay" \/ IsReadReq(e.req))

\* ------------------------------------------------------------------ claims

\* C1: when the canonical call fails with anything but HTTP 404 or 405 (401,
\* 403, 422, 500, no response), the fallback PUT is never issued and that
\* same error is the one propagated to the caller.
C1_OtherErrorPropagatesWithoutFallback ==
    \A i \in CanonicalRecvs :
        (/\ ~trace[i].resp.ok
         /\ ~(trace[i].resp.hasResponse /\ trace[i].resp.status \in {404, 405}))
        => /\ FallbackSends = {}
           /\ pc \in {"handle_error", "exit1"}
           /\ error = fromAxiosError(trace[i].resp)
           /\ Terminated => /\ out.type = error.type
                            /\ out.code = error.code

\* C2: when the canonical call fails with HTTP 404 or 405 the fallback PUT is
\* issued exactly once: never twice, and once as soon as the handler has left
\* the point between the catch and the fallback call, whether the fallback
\* then succeeds or fails.
C2_FallbackExactlyOnce ==
    CanonicalFailedWith({404, 405})
    => /\ Cardinality(FallbackSends) <= 1
       /\ (pc # "fallback" => Cardinality(FallbackSends) = 1)

C2_Witness ==
    /\ Terminated
    /\ CanonicalFailedWith({405})
    /\ FallbackFailed_Seen
    /\ Cardinality(FallbackSends) = 1

\* C3: every fallback call is preceded by a canonical call that was issued and
\* has completed with a failure; the fallback is never called without one.
C3_CanonicalBeforeFallback ==
    \A f \in FallbackSends :
        \E s \in CanonicalSends, r \in CanonicalRecvs :
            /\ s < r
            /\ r < f
            /\ ~trace[r].resp.ok

C3_Witness ==
    /\ FallbackSends # {}
    /\ pc = "fallback_wait"
    /\ CanonicalFailedWith({404})

\* C4: an invocation that got past validation makes one or two PUT calls,
\* never more than two, the fallback at most once; a failed fallback is not
\* retried but ends the invocation.
C4_OneOrTwoMutationCalls ==
    /\ Cardinality(PutSends) <= 2
    /\ Cardinality(FallbackSends) <= 1
    /\ (pc \notin {"start", "canonical"}
        /\ error.type \notin {"VALIDATION_ERROR", "CONFIGURATION_ERROR"})
       => Cardinality(PutSends) >= 1
    /\ FallbackFailed_Seen
       => /\ pc \in {"handle_error", "exit1"}
          /\ Cardinality(FallbackSends) = 1

C4_Witness ==
    /\ Terminated
    /\ Cardinality(PutSends) = 2
    /\ FallbackFailed_Seen
    /\ CanonicalFailedWith({404})

\* C5: when the canonical endpoint answers HTTP 401 the command ends with
\* AUTH_ERROR, code 401, at once: no fallback PUT and no verifier GET.
C5_Canonical401IsFatal ==
    CanonicalFailedWith({401})
    => /\ FallbackSends = {}
       /\ ReadSends = {}
       /\ pc \in {"handle_error", "exit1"}
       /\ error = ACTaskError("AUTH_ERROR", 401)
       /\ Terminated => /\ out.kind = "error"
                        /\ out.type = "AUTH_ERROR"
                        /\ out.code = 401

\* C6: the first verifier read begins only after the resolver's last PUT has
\* completed successfully; if the resolver raises no read is ever issued, and
\* if it succeeds the invocation does not end without a read.
C6_VerifyAfterSuccessfulMutation ==
    /\ ReadSends # {}
       => LET last == Max(PutSends \cup PutRecvs)
          IN  /\ last \in PutRecvs
              /\ trace[last].resp.ok
              /\ \A g \in ReadSends : last < g
              /\ Cardinality(PutRecvs) = Cardinality(PutSends)
    /\ pc \in {"handle_error", "exit1"} /\ (\E r \in PutRecvs : TRUE)
         /\ ~trace[Max(PutRecvs)].resp.ok
       => ReadSends = {}
    /\ Terminated /\ (\E r \in PutRecvs : trace[r].resp.ok)
       => ReadSends # {}

C6_Witness ==
    /\ Terminated
    /\ ReadSends # {}
    /\ \E r \in FallbackRecvs : trace[r].resp.ok

\* C7: verifyTaskStatus performs at most maxRetries + 1 reads, 4 with the
\* default, whatever flags the remote returns.
C7_BoundedReads ==
    /\ Cardinality(ReadSends) <= maxRetries + 1
    /\ Cardinality(ReadSends) <= 4

C7_Witness ==
    /\ pc = "exit1"
    /\ Cardinality(ReadSends) = 4
    /\ Cardinality(ReadRecvs) = 4

\* C8: the verifier's events are read, delay 500, read, delay 1000, read,
\* delay 2000, read: the k-th delay lies between read k and read k + 1 and is
\* the k-th entry of [500, 1000, 2000], none repeated or skipped.
C8_DelaysFollowSchedule ==
    LET v == VerifierEvents
        schedule == <<500, 1000, 2000>>
    IN  \A j \in DOMAIN v :
            /\ j % 3 = 1 => v[j].ev = "send"
            /\ j % 3 = 2 => v[j].ev = "recv"
            /\ j % 3 = 0 => /\ v[j].ev = "delay"
                            /\ (j \div 3) \in DOMAIN schedule
                            /\ v[j].ms = schedule[j \div 3]

C8_Witness ==
    /\ pc = "exit0"
    /\ Cardinality(Delays) = 3
    /\ ~out.warning

\* C9: every delay is followed by another read: once a read has returned the
\* number of delays is the number of reads minus one, so no delay follows the
\* final read, be it a matching one or the one that exhausts maxRetries.
C9_NoDelayAfterFinalRead ==
    /\ ReadSends = {} => Delays = {}
    /\ (ReadSends # {} /\ pc # "verify")
       => Cardinality(Delays) = Cardinality(ReadSends) - 1
    /\ pc \in {"output", "handle_error", "exit0", "exit1"} /\ trace # <<>>
       => trace[Len(trace)].ev # "delay"

C9_Witness ==
    /\ pc = "exit0"
    /\ out.warning
    /\ Cardinality(ReadSends) = 4
    /\ Cardinality(Delays) = 3

\* C10: as soon as a read returns a record whose normalized flag equals the
\* expected state, verifyTaskStatus returns that record: it is the last event
\* of the invocation, with no read and no delay after it.
C10_MatchReturnsImmediately ==
    \A i \in ReadRecvs :
        (/\ trace[i].resp.ok
         /\ NormalizeCompleted(trace[i].resp.flag) = expectedCompleted)
        => /\ i = Len(trace)
           /\ task = TaskOf(trace[i].resp)
           /\ pc \in {"output", "exit0"}

C10_Witness ==
    /\ pc = "exit0"
    /\ Cardinality(ReadSends) = 2
    /\ ~expectedCompleted
    /\ task.is_completed = "0"


\* The reads that returned a record, and whether each shows the target.
AllReadsSucceeded == \A i \in ReadRecvs : trace[i].resp.ok

ShowsComplete(flag) == flag \in {"true", "1"}

NoReadShowsTarget ==
    \A i \in ReadRecvs : ShowsComplete(trace[i].resp.flag) # expectedCompleted

\* C11: if the mutation succeeded, every read succeeds and none shows the
\* target state, nothing is raised: the command ends as a resolved outcome
\* (exit code 0, a result and no error) whose reported state differs from the
\* target, flagged by the warning.
C11_NonConvergenceIsNotRaised ==
    (ReadRecvs # {} /\ AllReadsSucceeded /\ NoReadShowsTarget)
    => /\ pc \notin {"handle_error", "exit1"}
       /\ error = NoError
       /\ Terminated => /\ pc = "exit0"
                        /\ out.kind = "result"
                        /\ out.exit = 0
                        /\ out.is_completed # expectedCompleted
                        /\ out.warning

C11_Witness ==
    /\ pc = "exit0"
    /\ Cardinality(ReadRecvs) = 4
    /\ AllReadsSucceeded
    /\ NoReadShowsTarget
    /\ expectedCompleted
    /\ out.warning


\* C13: the completion state the command reports is the normalized flag of
\* the last record the verifier read (the final attempt's on exhaustion),
\* whatever was requested and whatever the mutation call returned.
C13_ReportsLastReadRecord ==
    pc = "exit0"
    => /\ out.kind = "result"
       /\ ReadRecvs # {}
       /\ trace[Max(ReadRecvs)].resp.ok
       /\ task = TaskOf(trace[Max(ReadRecvs)].resp)
       /\ out.is_completed = ShowsComplete(trace[Max(ReadRecvs)].resp.flag)

C13_Witness ==
    /\ pc = "exit0"
    /\ expectedCompleted
    /\ \E r \in PutRecvs : trace[r].resp.ok /\ trace[r].resp.flag = "true"
    /\ Cardinality(ReadRecvs) = 4
    /\ trace[Max(ReadRecvs)].resp.flag = "0"
    /\ ~out.is_completed

\* The number of reads answered up to event i of the trace.
ReadsUpTo(i) == Cardinality({j \in ReadRecvs : j <= i})

\* C14: true and 1 count as complete, false and 0 as open, in the verifier's
\* comparison and in the outcome alike: whether a read ends the verification,
\* the reported is_completed and the warning depend on the flag only through
\* that reading, so records differing in the encoding alone fare the same.
C14_EncodingsAreEquivalent ==
    /\ \A i \in ReadRecvs :
         trace[i].resp.ok
         => LET matched == ShowsComplete(trace[i].resp.flag) = expectedCompleted
            IN  /\ matched => i = Len(trace) /\ pc \in {"output", "exit0"}
                /\ (~matched /\ ReadsUpTo(i) <= maxRetries)
                   => IF i = Len(trace) THEN pc = "delay"
                                        ELSE trace[i + 1].ev = "delay"
    /\ pc = "exit0"
       => LET last == trace[Max(ReadRecvs)].resp.flag
          IN  /\ out.is_completed = ShowsComplete(last)
              /\ out.warning = (ShowsComplete(last) # expectedCompleted)

C14_Witness ==
    /\ pc = "exit0"
    /\ expectedCompleted
    /\ Cardinality(ReadRecvs) = 2
    /\ trace[Max(ReadRecvs)].resp.flag = "1"
    /\ \E i \in ReadRecvs : trace[i].resp.flag = "0"
    /\ out.is_completed
    /\ ~out.warning

\* C16: a call that fails with no HTTP response (canonical, fallback or
\* read) ends the invocation fatally with NETWORK_ERROR; no later call
\* succeeds in its place.
C16_NetworkFailureIsFatal ==
    \A i \in Idx :
        (trace[i].ev = "recv" /\ ~trace[i].resp.ok /\ ~trace[i].resp.hasResponse)
        => /\ i = Len(trace)
           /\ pc \in {"handle_error", "exit1"}
           /\ error.type = "NETWORK_ERROR"
           /\ Terminated => out.kind = "error" /\ out.type = "NETWORK_ERROR"

\* C17: a 404 or 405 of the canonical endpoint is never the error reported:
\* the fallback follows, and an invocation that then fails reports the error
\* of a later failed call, the fallback's if the fallback failed.
C17_RoutingFailureNotReported ==
    \A c \in CanonicalRecvs :
        (/\ ~trace[c].resp.ok
         /\ trace[c].resp.hasResponse
         /\ trace[c].resp.status \in {404, 405})
        => /\ pc \in {"handle_error", "exit1"}
              => /\ Len(trace) > c
                 /\ trace[Len(trace)].ev = "recv"
                 /\ ~trace[Len(trace)].resp.ok
                 /\ ~IsCanonicalReq(trace[Len(trace)].req)
                 /\ error = fromAxiosError(trace[Len(trace)].resp)
                 /\ FallbackFailed_Seen => IsFallbackReq(trace[Len(trace)].req)
           /\ (\E f \in FallbackRecvs : trace[f].resp.ok)
              => pc \in {"verify", "verify_wait", "delay", "output", "exit0",
                         "handle_error", "exit1"}
           /\ (pc \in {"handle_error", "exit1"}
               /\ \E f \in FallbackRecvs : trace[f].resp.ok)
              => ReadSends # {}

C17_Witness ==
    /\ pc = "exit1"
    /\ CanonicalFailedWith({404})
    /\ \E f \in FallbackRecvs :
          ~trace[f].resp.ok /\ trace[f].resp.status = 500
    /\ out.code = 500

\* C18: a fallback call that fails with HTTP status s stops the invocation
\* with AUTH_ERROR if s is 401 or 403 and API_ERROR otherwise, code s, as the
\* transport client raised it; no verifier read follows.
C18_FallbackFailureIsFatal ==
    \A f \in FallbackRecvs :
        (~trace[f].resp.ok /\ trace[f].resp.hasResponse)
        => LET s == trace[f].resp.status
               category == IF s \in {401, 403} THEN "AUTH_ERROR" ELSE "API_ERROR"
           IN  /\ f = Len(trace)
               /\ ReadSends = {}
               /\ pc \in {"handle_error", "exit1"}
               /\ error.cls = "ACTaskError"
               /\ error.type = category
               /\ error.code = s
               /\ Terminated => /\ out.kind = "error"
                                /\ out.exit = 1
                                /\ out.type = category
                                /\ out.code = s

C18_Witness ==
    /\ pc = "exit1"
    /\ \E f \in FallbackRecvs :
          ~trace[f].resp.ok /\ trace[f].resp.status = 403
    /\ out.type = "AUTH_ERROR"
    /\ out.code = 403

C19_Endings ==
    /\ ~Terminated => out = NoOutput
    /\ pc = "exit0"
       => /\ out.kind = "result"
          /\ out.exit = 0
          /\ out.stream = "stdout"
          /\ out.type = "none"
          /\ error = NoError
    /\ pc = "exit1"
       => /\ out.kind = "error"
          /\ out.exit = 1
          /\ error # NoError
          /\ out.type = error.type
          /\ out.code = error.code
          /\ out.stream = IF args.format = "json" THEN "stdout" ELSE "stderr"

C19_HandleErrorExits ==
    /\ pc = "handle_error" => pc' = "exit1"
    /\ pc \notin {"exit0", "exit1"}

\* C19: an invocation prints once, at its end, in one of two ways: a result
\* with exit code 0 and no error, or an error with exit code 1, on standard
\* output when the format is json and on standard error otherwise; handleError
\* exits the process, so nothing runs after it (nor after the result).
C19_TwoEndings == [](C19_Endings) /\ [][C19_HandleErrorExits]_vars

C19_Witness ==
    /\ pc = "exit1"
    /\ args.format = "json"
    /\ out.stream = "stdout"
    /\ out.type = "AUTH_ERROR"
    /\ ReadSends = {}

\* C20: in JSON mode the result of an invocation whose verification ended
\* carries `warning` exactly when the last observed state differs from the
\* target, non-convergence included; it is a result, not an error envelope,
\* and `success` is true exactly when there is no warning.
C20_WarningIffMismatch ==
    (pc = "exit0" /\ args.format = "json")
    => LET last == trace[Max(ReadRecvs)].resp.flag
       IN  /\ out.kind = "result"
           /\ out.exit = 0
           /\ out.warning = (ShowsComplete(last) # expectedCompleted)
           /\ out.success = ~out.warning

C20_Witness ==
    /\ pc = "exit0"
    /\ args.format = "json"
    /\ Cardinality(ReadSends) = 4
    /\ out.warning
    /\ ~out.success
    /\ ~expectedCompleted

\* C21: the body of the fallback call sets both fields in agreement with the
\* target: is_completed 1 with completed_on the current time for complete,
\* is_completed 0 with completed_on null for open; never one without the
\* other, never a pair that disagrees with the target.
C21_FallbackBodyMatchesTarget ==
    \A f \in FallbackSends :
        LET body == trace[f].req.body
        IN  /\ body.is_completed # "absent"
            /\ body.completed_on # "absent"
            /\ expectedCompleted
               => body.is_completed = "1" /\ body.completed_on = "now"
            /\ ~expectedCompleted
               => body.is_completed = "0" /\ body.completed_on = "null"

C21_Witness ==
    /\ ~expectedCompleted
    /\ pc = "fallback_wait"
    /\ \E f \in FallbackSends : trace[f].req.body.completed_on = "null"

Sends == {i \in Idx : trace[i].ev = "send"}
Recvs == {i \in Idx : trace[i].ev = "recv"}

\* C22: at most one remote request is outstanding at any point: every call,
\* mutation or read, is issued only after the previous call has been
\* answered, so no two reads are in flight together.
C22_OneRequestAtATime ==
    /\ Cardinality(inflight) <= 1
    /\ Cardinality(Sends) - Cardinality(Recvs) = Cardinality(inflight)
    /\ \A i \in Sends :
          /\ i > 1 => trace[i - 1].ev # "send"
          /\ \A j \in Sends : j < i => \E r \in Recvs : j < r /\ r < i
                                          /\ trace[r].req = trace[j].req
    /\ pc \in {"canonical_wait", "fallback_wait", "verify_wait"}
       <=> inflight # {}

C22_Witness ==
    /\ pc = "verify_wait"
    /\ Cardinality(ReadSends) = 3
    /\ Cardinality(ReadRecvs) = 2
    /\ inflight = {ReadRequest(projectId, id)}

RECURSIVE SumMs(_)
SumMs(S) ==
    IF S = {} THEN 0
    ELSE LET i == CHOOSE x \in S : TRUE IN trace[i].ms + SumMs(S \ {i})

\* C23: when every call eventually returns or fails, every invocation
\* terminates, and all along it has made at most two mutation calls, four
\* reads and three delays that sum to at most 3500 ms.
C23_TerminatesWithinBudget ==
    /\ <>Terminated
    /\ [](/\ Cardinality(PutSends) <= 2
          /\ Cardinality(ReadSends) <= 4
          /\ Cardinality(Delays) <= 3
          /\ SumMs(Delays) <= 3500)

C23_Witness ==
    /\ Terminated
    /\ Cardinality(PutSends) = 2
    /\ Cardinality(ReadSends) = 4
    /\ Cardinality(Delays) = 3
    /\ SumMs(Delays) = 3500

\* C24: the outcome of a transition carries attempts_used, the number of
\* retries made before the read whose record is returned (0 when the first
\* read matches, 1 when the second read, after the 500 ms delay, matches).
C24_OutcomeCarriesAttemptsUsed ==
    (pc = "exit0" /\ getFormat(args.format) = "json")
      => /\ "attempts_used" \in out.fields
         /\ attempt = Cardinality(Delays)

\* The <task_id> argument denotes a positive integer.
IsPositiveInteger(a) == a.kind = "int" /\ a.n > 0

\* C26: update-status issues no remote call when its input is invalid: a
\* status other than done/open (case-insensitively) or a task id that is not
\* a positive integer ends with VALIDATION_ERROR, a missing project
\* configuration with CONFIGURATION_ERROR, before the canonical call.
C26_InvalidInputIssuesNoCall ==
    LET badStatus == ToLowerCase(args.status) \notin {"done", "open"}
        badId     == ~IsPositiveInteger(args.taskId)
        noProject == env.projectConfig = 0
    IN  /\ (badStatus \/ badId \/ noProject) => trace = <<>>
        /\ (badStatus /\ Terminated) => out.type = "VALIDATION_ERROR"
        /\ (~badStatus /\ env.globalConfig # "absent" /\ noProject /\ Terminated)
             => out.type = "CONFIGURATION_ERROR"
        /\ (~badStatus /\ env.globalConfig # "absent" /\ ~noProject /\ badId
              /\ Terminated)
             => out.type = "VALIDATION_ERROR"

\* A read of the verifier was answered with a failure.
FailedReads == {i \in ReadRecvs : ~trace[i].resp.ok}

\* C29: a failed read of the verifier is never retried: it is the last event
\* of the invocation (no further read, no delay), its error is the one
\* reported, and the invocation ends with exit code 1 although a mutation
\* call had been accepted before it.
C29_FailedReadIsFatal ==
    \A i \in FailedReads :
        /\ i = Len(trace)
        /\ Cardinality(FailedReads) = 1
        /\ pc \in {"handle_error", "exit1"}
        /\ error = fromAxiosError(trace[i].resp)
        /\ \E m \in PutRecvs : m < i /\ trace[m].resp.ok
        /\ Terminated => /\ out.exit = 1
                         /\ out.type = error.type

C29_Witness ==
    /\ pc = "exit1"
    /\ Cardinality(ReadSends) = 2
    /\ Cardinality(Delays) = 1
    /\ FailedReads = {Len(trace)}
    /\ \E m \in CanonicalRecvs : trace[m].resp.ok

\* ------------------------------------------- verifyTaskStatus on its own

\* A call verifyTaskStatus(client, projectId, taskId, expectedCompleted,
\* maxRetries) with any expected state and any maxRetries >= 0; it ends when
\* the function returns (pc = "output") or throws (pc = "handle_error").
InitVerify ==
    /\ args = [status |-> "done", taskId |-> [kind |-> "int", n |-> 1],
               format |-> "json"]
    /\ env = [globalConfig |-> "env_token_set", projectConfig |-> 1]
    /\ pc = "verify"
    /\ expectedCompleted \in BOOLEAN
    /\ projectId = 1
    /\ id = 1
    /\ attempt = 0
    /\ maxRetries \in 0 .. MaxRetriesArg
    /\ task = NoTask
    /\ error = NoError
    /\ inflight = {}
    /\ trace = <<>>
    /\ out = NoOutput
    /\ rep = NoReport
    /\ del = NoDelete
    /\ pg = NoPages
    /\ au = NoAuth

NextVerify ==
    \/ VerifyRead
    \/ VerifyReturn
    \/ Backoff

SpecVerify == InitVerify /\ [][NextVerify]_vars

\* C12: when all its reads succeed verifyTaskStatus never raises, for every
\* sequence of flags and every maxRetries >= 0: the API_ERROR after the loop
\* is never thrown, and the function returns the record of its last read.
C12_VerifierNeverRaises ==
    /\ error # ACTaskError("API_ERROR", 1)
    /\ AllReadsSucceeded
       => /\ error = NoError
          /\ pc # "handle_error"
          /\ pc = "output"
             => /\ ReadRecvs # {}
                /\ task = TaskOf(trace[Max(ReadRecvs)].resp)
                /\ task.is_completed \in Flags

C12_Witness ==
    /\ pc = "output"
    /\ maxRetries = 4
    /\ Cardinality(ReadRecvs) = 5
    /\ AllReadsSucceeded
    /\ NoReadShowsTarget


\* ------------------------------------------------ list and show, JSON output

\* Sequences of completion flags as the remote returns them.
FlagSeqs == UNION {[1 .. n -> Flags] : n \in 0 .. MaxTasks}

\* listHandler: --closed gives isCompleted = 1, otherwise without --all it is
\* 0, and with --all it stays undefined.
ListFilter(closed, all) ==
    IF closed THEN "1" ELSE IF ~all THEN "0" ELSE "undefined"

\* filterTasks, completion filter: taskCompleted === targetCompleted with both
\* sides read as (=== 1 || === true).
filterTasks(tasks, isCompleted) ==
    IF isCompleted = "undefined" THEN tasks
    ELSE SelectSeq(tasks,
           LAMBDA f : (f = "1" \/ f = "true")
                      = (isCompleted = "1" \/ isCompleted = "true"))

\* listHandler JSON: is_completed: t.is_completed === 1
ListJsonCompleted(flag) == flag = "1"

\* showHandler JSON: is_completed: task.is_completed === 1
ShowJsonCompleted(flag) == flag = "1"

\* showHandler JSON, subtasks: st.is_completed === true || st.is_completed === 1
SubtaskJsonCompleted(flag) == flag = "true" \/ flag = "1"

\* A list or show invocation in JSON format whose fetches have succeeded; the
\* other filters of list let every task through.
InitReport ==
    /\ del = NoDelete
    /\ pg = NoPages
    /\ au = NoAuth
    /\ args = [status |-> "done", taskId |-> [kind |-> "int", n |-> 1],
               format |-> "json"]
    /\ env = [globalConfig |-> "env_token_set", projectConfig |-> 1]
    /\ pc = "report"
    /\ expectedCompleted = FALSE
    /\ projectId = 1
    /\ id = 1
    /\ attempt = 0
    /\ maxRetries = DefaultMaxRetries
    /\ task = NoTask
    /\ error = NoError
    /\ inflight = {}
    /\ trace = <<>>
    /\ out = NoOutput
    /\ \/ \E closed \in BOOLEAN, all \in BOOLEAN, ts \in FlagSeqs :
            rep = [cmd |-> "list", closed |-> closed, all |-> all, tasks |-> ts,
                   subtasks |-> <<>>, phase |-> "fetched", json |-> <<>>,
                   subjson |-> <<>>]
       \/ \E f \in Flags, sts \in FlagSeqs :
            rep = [cmd |-> "show", closed |-> FALSE, all |-> FALSE,
                   tasks |-> <<f>>, subtasks |-> sts, phase |-> "fetched",
                   json |-> <<>>, subjson |-> <<>>]

\* listHandler: filter in memory, then print the JSON tasks.
ListOutput ==
    /\ rep.cmd = "list"
    /\ rep.phase = "fetched"
    /\ LET shown == filterTasks(rep.tasks, ListFilter(rep.closed, rep.all))
       IN  rep' = [rep EXCEPT
                     !.phase = "printed",
                     !.tasks = shown,
                     !.json = [i \in DOMAIN shown |-> ListJsonCompleted(shown[i])]]
    /\ UNCHANGED <<del, pg, au, args, env, pc, expectedCompleted, projectId, id, attempt,
                   maxRetries, task, error, inflight, trace, out>>

\* showHandler: print the JSON task with its subtasks.
ShowOutput ==
    /\ rep.cmd = "show"
    /\ rep.phase = "fetched"
    /\ rep' = [rep EXCEPT
                 !.phase = "printed",
                 !.json = [i \in DOMAIN rep.tasks |->
                             ShowJsonCompleted(rep.tasks[i])],
                 !.subjson = [i \in DOMAIN rep.subtasks |->
                                SubtaskJsonCompleted(rep.subtasks[i])]]
    /\ UNCHANGED <<del, pg, au, args, env, pc, expectedCompleted, projectId, id, attempt,
                   maxRetries, task, error, inflight, trace, out>>

NextReport ==
    \/ ListOutput
    \/ ShowOutput

SpecReport == InitReport /\ [][NextReport]_vars

\* C15: list and show report is_completed = true for a remote flag of true
\* exactly as for 1, and false for both false and 0: every printed task and
\* subtask carries the reading true/1 = complete of the flag it was built from.
C15_ReportsTreatEncodingsAlike ==
    rep.phase = "printed"
    => /\ \A i \in DOMAIN rep.json :
            rep.json[i] = ShowsComplete(rep.tasks[i])
       /\ \A i \in DOMAIN rep.subjson :
            rep.subjson[i] = ShowsComplete(rep.subtasks[i])

\* --------------------------------------------------------- the delete command

\* The variables of update-status and of the reports, untouched by the
\* other commands.
updateVars == <<rep, args, env, pc, expectedCompleted, projectId, id, attempt,
                maxRetries, task, error, inflight, trace, out>>

\* No update-status command is running.
IdleUpdate ==
    /\ args = [status |-> "done", taskId |-> [kind |-> "int", n |-> 1],
               format |-> "json"]
    /\ env = [globalConfig |-> "env_token_set", projectConfig |-> 1]
    /\ pc = "idle"
    /\ expectedCompleted = FALSE
    /\ projectId = 0
    /\ id = 0
    /\ attempt = 0
    /\ maxRetries = DefaultMaxRetries
    /\ task = NoTask
    /\ error = NoError
    /\ inflight = {}
    /\ trace = <<>>
    /\ out = NoOutput
    /\ rep = NoReport

\* delete <task_id> [--format f] [--force], the two configuration files, and
\* the state of deleteHandler: position, parsed id, whether the fetched
\* record had a `single`, what was requested and answered, error, exit code.
InitDelete ==
    /\ IdleUpdate
    /\ pg = NoPages
    /\ au = NoAuth
    /\ \E t \in TaskIdArgs, f \in FormatArgs, force \in BOOLEAN,
          g \in GlobalConfigs, p \in ProjectConfigs :
         del = [pc |-> "start", taskId |-> t, format |-> f, force |-> force,
                globalConfig |-> g, projectConfig |-> p, id |-> 0,
                single |-> FALSE, trace |-> <<>>, error |-> NoError,
                exit |-> -1]

DeleteThrow(e) == [del EXCEPT !.pc = "handle_error", !.error = e]

\* deleteHandler up to getClient(): the configuration files, the task id.
DeleteValidate ==
    /\ del.pc = "start"
    /\ LET parsed == ParseInt(del.taskId)
       IN  del' =
             IF del.globalConfig = "absent"
               THEN DeleteThrow(ACTaskError("CONFIGURATION_ERROR", 1))
             ELSE IF del.projectConfig = 0
               THEN DeleteThrow(ACTaskError("CONFIGURATION_ERROR", 1))
             ELSE IF parsed.nan \/ parsed.n <= 0
               THEN DeleteThrow(ACTaskError("VALIDATION_ERROR", 1))
             ELSE IF del.globalConfig # "env_token_set"
               THEN [DeleteThrow(ACTaskError("CONFIGURATION_ERROR", 1))
                       EXCEPT !.id = parsed.n]
             ELSE [del EXCEPT !.pc = "fetch", !.id = parsed.n]
    /\ UNCHANGED <<updateVars, pg, au>>

\* const taskResponse = await fetchTask(projectId, id, client)
DeleteFetch ==
    /\ del.pc = "fetch"
    /\ del' = [del EXCEPT !.pc = "fetch_wait", !.trace = Append(@, "GET")]
    /\ UNCHANGED <<updateVars, pg, au>>

ConfirmationRequired_Never(force) == FALSE

\* if (!options.force)
ConfirmationRequired(force) == ~force

\* The fetch returns; then the safety check: without --force, JSON mode
\* throws SAFETY_ERROR and human mode announces the task (a TypeError when
\* the record has no `single`) and prompts.
DeleteFetched ==
    /\ del.pc = "fetch_wait"
    /\ \E resp \in Responses :
         del' =
           IF ~resp.ok
             THEN [DeleteThrow(Interceptor(resp))
                     EXCEPT !.trace = Append(@, "GET_failed")]
           ELSE LET d == [del EXCEPT !.trace = Append(@, "GET_ok"),
                                     !.single = resp.wrapped]
                IN  IF ConfirmationRequired(del.force)
                      THEN IF getFormat(del.format) = "json"
                             THEN [d EXCEPT !.pc = "handle_error",
                                            !.error = ACTaskError("SAFETY_ERROR", 1)]
                           ELSE IF ~resp.wrapped
                             THEN [d EXCEPT !.pc = "handle_error",
                                            !.error = ACTaskError("UNKNOWN_ERROR", 1)]
                           ELSE [d EXCEPT !.pc = "confirm"]
                      ELSE [d EXCEPT !.pc = "delete"]
    /\ UNCHANGED <<updateVars, pg, au>>

\* const confirmed = await confirm(...); if (!confirmed) return
DeleteConfirm ==
    /\ del.pc = "confirm"
    /\ \E confirmed \in BOOLEAN :
         del' = IF confirmed
                  THEN [del EXCEPT !.pc = "delete",
                                   !.trace = Append(@, "confirm_yes")]
                  ELSE [del EXCEPT !.pc = "exit0", !.exit = 0,
                                   !.trace = Append(@, "confirm_no")]
    /\ UNCHANGED <<updateVars, pg, au>>

\* await client.delete(`/projects/${projectId}/tasks/${id}`)
DeleteSend ==
    /\ del.pc = "delete"
    /\ del' = [del EXCEPT !.pc = "delete_wait", !.trace = Append(@, "DELETE")]
    /\ UNCHANGED <<updateVars, pg, au>>

\* The DELETE returns: the result is printed from the fetched record (a
\* TypeError when it has no `single`), a failure goes to handleError.
DeleteReturn ==
    /\ del.pc = "delete_wait"
    /\ \E resp \in Responses :
         del' =
           IF ~resp.ok
             THEN [DeleteThrow(Interceptor(resp))
                     EXCEPT !.trace = Append(@, "DELETE_failed")]
           ELSE IF ~del.single
             THEN [DeleteThrow(ACTaskError("UNKNOWN_ERROR", 1))
                     EXCEPT !.trace = Append(@, "DELETE_ok")]
           ELSE [del EXCEPT !.pc = "exit0", !.exit = 0,
                            !.trace = Append(@, "DELETE_ok")]
    /\ UNCHANGED <<updateVars, pg, au>>

\* catch (err) { handleError(err, format) }: process.exit(1)
DeleteHandleError ==
    /\ del.pc = "handle_error"
    /\ del' = [del EXCEPT !.pc = "exit1", !.exit = 1]
    /\ UNCHANGED <<updateVars, pg, au>>

NextDelete ==
    \/ DeleteValidate
    \/ DeleteFetch
    \/ DeleteFetched
    \/ DeleteConfirm
    \/ DeleteSend
    \/ DeleteReturn
    \/ DeleteHandleError

SpecDelete == InitDelete /\ [][NextDelete]_vars

\* The events of the delete invocation.
DeleteEvents == {del.trace[i] : i \in DOMAIN del.trace}

\* C27: delete sends the DELETE only when --force is given or the prompt was
\* answered yes; without --force JSON mode ends with SAFETY_ERROR and a
\* declined prompt ends the handler, both without any DELETE.
C27_DeleteOnlyWhenForcedOrConfirmed ==
    /\ "DELETE" \in DeleteEvents
         => (del.force \/ "confirm_yes" \in DeleteEvents)
    /\ (~del.force /\ getFormat(del.format) = "json" /\ "GET_ok" \in DeleteEvents)
         => /\ "DELETE" \notin DeleteEvents
            /\ del.pc \in {"handle_error", "exit1"}
            /\ del.error = ACTaskError("SAFETY_ERROR", 1)
    /\ "confirm_no" \in DeleteEvents
         => /\ "DELETE" \notin DeleteEvents
            /\ del.pc = "exit0"
            /\ del.error = NoError
    /\ del.force => ("confirm_yes" \notin DeleteEvents
                       /\ "confirm_no" \notin DeleteEvents)

C27_Witness ==
    /\ ~del.force
    /\ del.pc = "exit0"
    /\ del.trace = <<"GET", "GET_ok", "confirm_yes", "DELETE", "DELETE_ok">>

\* ----------------------------------------------------------- fetchAllPages

MaxPagesArg == 3
MaxItems == 2

\* response.data of one page: a bare array, an object whose first array
\* property has the given length, an object without any array property,
\* anything else (a string, a number, null); or the request fails.
PageData ==
    [kind : {"array", "object"}, len : 0 .. MaxItems]
      \cup {[kind |-> "object_noarray", len |-> 0],
            [kind |-> "other", len |-> 0],
            [kind |-> "failed", len |-> 0]}

\* A call fetchAllPages(endpoint, client, maxPages): page is the loop
\* variable, sent the pages requested, got the data answered, results the
\* number of items collected.
InitPages ==
    /\ IdleUpdate
    /\ del = NoDelete
    /\ au = NoAuth
    /\ \E m \in 0 .. MaxPagesArg :
         pg = [pc |-> "loop", maxPages |-> m, page |-> 1, sent |-> <<>>,
               got |-> <<>>, results |-> 0]

\* for (...; page <= maxPages; ...): the next request, or return results.
PagesRequest ==
    /\ pg.pc = "loop"
    /\ pg' = IF pg.page <= pg.maxPages
               THEN [pg EXCEPT !.pc = "wait", !.sent = Append(@, pg.page)]
               ELSE [pg EXCEPT !.pc = "returned"]
    /\ UNCHANGED <<updateVars, del, au>>

\* The breaks that leave the page loop: an empty bare array, an object
\* without an array property, any other data.  The break taken for an empty
\* array inside an object leaves only the loop over the object's keys.
PageEndsLoop(data) ==
    \/ data.kind = "array" /\ data.len = 0
    \/ data.kind = "object_noarray"
    \/ data.kind = "other"

\* The page is answered: a failure is thrown to the caller; otherwise the
\* items are collected and the loop breaks or goes on with page + 1.
PagesReturn ==
    /\ pg.pc = "wait"
    /\ \E data \in PageData :
         pg' = IF data.kind = "failed"
                 THEN [pg EXCEPT !.pc = "threw", !.got = Append(@, data)]
               ELSE IF PageEndsLoop(data)
                 THEN [pg EXCEPT !.pc = "returned", !.got = Append(@, data)]
               ELSE [pg EXCEPT !.pc = "loop", !.got = Append(@, data),
                               !.results = @ + data.len,
                               !.page = @ + 1]
    /\ UNCHANGED <<updateVars, del, au>>

NextPages ==
    \/ PagesRequest
    \/ PagesReturn

SpecPages == InitPages /\ [][NextPages]_vars

\* The page came back empty: a bare empty array or an object wrapping one.
EmptyPage(data) == data.kind \in {"array", "object"} /\ data.len = 0

\* C28: fetchAllPages requests pages 1, 2, 3, ... in this order, never more
\* than maxPages of them, and makes no further request once a page has come
\* back empty, be it a bare empty array or an object wrapping an empty array.
C28_PagesInOrderUntilEmpty ==
    /\ \A i \in DOMAIN pg.sent : pg.sent[i] = i
    /\ Len(pg.sent) <= pg.maxPages
    /\ \A i \in DOMAIN pg.got :
          EmptyPage(pg.got[i]) => (Len(pg.sent) = i /\ pg.pc = "returned")

\* ------------------------------------------------- auth setup and the client

\* ~/.ac-task/config.json as a GlobalConfig: none, one naming the
\* environment variable of the token, or one holding the token itself.
NoConfig ==
    [exists |-> FALSE, token_env_var |-> "absent", token |-> "absent",
     force_unsafe_ssl |-> FALSE]

EnvVarConfig ==
    [exists |-> TRUE, token_env_var |-> "AC_API_TOKEN", token |-> "absent",
     force_unsafe_ssl |-> FALSE]

\* const config: GlobalConfig = { base_url, token, cached_user_id,
\* cached_user_name, ...(forceUnsafeSsl && { force_unsafe_ssl: true }) }
StoredTokenConfig(forceUnsafeSsl) ==
    [exists |-> TRUE, token_env_var |-> "absent", token |-> "stored",
     force_unsafe_ssl |-> forceUnsafeSsl]

DiskConfigs ==
    {NoConfig, EnvVarConfig} \cup {StoredTokenConfig(f) : f \in BOOLEAN}

\* The environment: the names of the variables that are set.
Environments == SUBSET {"AC_API_TOKEN"}

\* An error of the auth commands: text tells whether its message or details
\* hold one of the words isSSLError looks for.
NoAuthError == [type |-> "none", code |-> -1, text |-> "none"]

AuthError(type, code, text) == [type |-> type, code |-> code, text |-> text]

\* process.env[config.token_env_var]: the key is "undefined" when the
\* configuration has no token_env_var.
EnvKey(config) ==
    IF config.token_env_var = "absent" THEN "undefined"
                                       ELSE config.token_env_var

\* getApiToken(globalConfig): the value of the environment variable, or a
\* CONFIGURATION_ERROR when it is not set.
GetApiToken(config, environment) ==
    IF EnvKey(config) \in environment
      THEN [ok |-> TRUE, error |-> NoAuthError]
      ELSE [ok |-> FALSE,
            error |-> AuthError("CONFIGURATION_ERROR", 1, "plain")]

\* createClient() without arguments: url and token from the global
\* configuration, CONFIGURATION_ERROR when either is missing.
CreateClient(config, environment) ==
    IF ~config.exists
      THEN [ok |-> FALSE,
            error |-> AuthError("CONFIGURATION_ERROR", 1, "plain")]
      ELSE GetApiToken(config, environment)

\* What a GET of verifyCredentials comes back with: a user record, other
\* data, an HTTP error, a certificate failure, a refused connection.
VerifyAnswers == {"user", "other_data", "http_error", "ssl_failure", "refused"}

\* auth setup [--format f] [--insecure] in a new process: the configuration
\* on disk, the environment, the module state of client.ts (clientInstance,
\* allowInsecure) and the locals of setupHandler.
InitAuth ==
    /\ IdleUpdate
    /\ del = NoDelete
    /\ pg = NoPages
    /\ \E f \in FormatArgs, k \in BOOLEAN, d \in DiskConfigs,
          e \in Environments :
         au = [cmd |-> "setup", pc |-> "start", format |-> f, insecure |-> k,
               disk |-> d, disk0 |-> d, environment |-> e,
               clientInstance |-> "null", allowInsecure |-> FALSE,
               forceUnsafeSsl |-> FALSE, tokenHasId |-> FALSE,
               verifyCalls |-> 0, requests |-> <<>>, verified |-> FALSE,
               declined |-> "none", saves |-> 0, resets |-> 0,
               error |-> NoAuthError, exit |-> -1]

\* let forceUnsafeSsl = options.insecure ?? false; setInsecure(true) if so;
\* const existingConfig = loadGlobalConfig()
SetupStart ==
    /\ au.cmd = "setup" /\ au.pc = "start"
    /\ au' = [au EXCEPT !.forceUnsafeSsl = au.insecure,
                        !.allowInsecure = au.insecure,
                        !.pc = IF au.disk.exists THEN "confirm_overwrite"
                                                 ELSE "prompt"]
    /\ UNCHANGED <<updateVars, del, pg>>

\* const shouldOverwrite = await confirm(...); if (!shouldOverwrite) return
SetupOverwrite ==
    /\ au.pc = "confirm_overwrite"
    /\ \E shouldOverwrite \in BOOLEAN :
         au' = IF shouldOverwrite
                 THEN [au EXCEPT !.pc = "prompt"]
                 ELSE [au EXCEPT !.pc = "done", !.exit = 0,
                                 !.declined = "overwrite"]
    /\ UNCHANGED <<updateVars, del, pg>>

\* The prompts for the URL and the token (which may or may not start with
\* a user id), then the first call of verifyCredentials.
SetupPrompt ==
    /\ au.pc = "prompt"
    /\ \E hasId \in BOOLEAN :
         au' = [au EXCEPT !.tokenHasId = hasId, !.pc = "get_user",
                          !.verifyCalls = 1]
    /\ UNCHANGED <<updateVars, del, pg>>

\* isSSLError(err)
isSSLError(e) == e.text = "ssl"

VerifyThrow_Swallowed(a, e) == [a EXCEPT !.pc = "save"]

\* verifyCredentials throws e.  The first call is inside try / catch: an
\* SSL error in human format without --insecure leads to the prompt, any
\* other error is rethrown; the second call is not guarded.
VerifyThrow(a, e) ==
    IF a.verifyCalls = 1 /\ isSSLError(e) /\ getFormat(a.format) = "human"
         /\ ~a.forceUnsafeSsl
      THEN [a EXCEPT !.pc = "confirm_ssl", !.error = e]
      ELSE [a EXCEPT !.pc = "handle_error", !.error = e]

\* verifyCredentials returns the user.
VerifyReturnUser(a) == [a EXCEPT !.pc = "save", !.verified = TRUE]

\* client.get('/user'): a user record is returned; anything else, a failure
\* included, leads to the next attempt.
VerifyUser ==
    /\ au.pc = "get_user"
    /\ \E ans \in VerifyAnswers :
         LET a == [au EXCEPT !.requests = Append(@, "/user")]
         IN  au' = IF ans = "user" THEN VerifyReturnUser(a)
                   ELSE IF au.tokenHasId THEN [a EXCEPT !.pc = "get_users_id"]
                   ELSE [a EXCEPT !.pc = "get_info"]
    /\ UNCHANGED <<updateVars, del, pg>>

\* fetchUserById(client, userId): every failure is an ACTaskError and is
\* rethrown by verifyCredentials.
VerifyUsersId ==
    /\ au.pc = "get_users_id"
    /\ \E ans \in VerifyAnswers :
         LET a == [au EXCEPT !.requests = Append(@, "/users/id")]
         IN  au' =
               CASE ans = "user" -> VerifyReturnUser(a)
                 [] ans = "other_data" ->
                      VerifyThrow(a, AuthError("API_ERROR", 500, "plain"))
                 [] ans = "http_error" ->
                      VerifyThrow(a, AuthError("AUTH_ERROR", 401, "plain"))
                 [] ans = "ssl_failure" ->
                      VerifyThrow(a, AuthError("NETWORK_ERROR", 0, "ssl"))
                 [] ans = "refused" ->
                      VerifyThrow(a, AuthError("NETWORK_ERROR", 0, "plain"))
    /\ UNCHANGED <<updateVars, del, pg>>

\* client.get('/info'): reachable means the user could not be identified
\* (AUTH_ERROR 401); otherwise NETWORK_ERROR, with the message of the
\* failure as details unless the connection was refused.
VerifyInfo ==
    /\ au.pc = "get_info"
    /\ \E ans \in VerifyAnswers :
         LET a == [au EXCEPT !.requests = Append(@, "/info")]
         IN  au' =
               CASE ans \in {"user", "other_data"} ->
                      VerifyThrow(a, AuthError("AUTH_ERROR", 401, "plain"))
                 [] ans = "ssl_failure" ->
                      VerifyThrow(a, AuthError("NETWORK_ERROR", 0, "ssl"))
                 [] ans \in {"http_error", "refused"} ->
                      VerifyThrow(a, AuthError("NETWORK_ERROR", 0, "plain"))
    /\ UNCHANGED <<updateVars, del, pg>>

\* const disableSsl = await confirm(...): yes retries verifyCredentials
\* with SSL verification disabled, no rethrows the error.
SetupDisableSsl ==
    /\ au.pc = "confirm_ssl"
    /\ \E disableSsl \in BOOLEAN :
         au' = IF disableSsl
                 THEN [au EXCEPT !.forceUnsafeSsl = TRUE,
                                 !.allowInsecure = TRUE,
                                 !.error = NoAuthError,
                                 !.verifyCalls = @ + 1,
                                 !.pc = "get_user"]
                 ELSE [au EXCEPT !.pc = "handle_error", !.declined = "ssl"]
    /\ UNCHANGED <<updateVars, del, pg>>

\* saveGlobalConfig(config); resetClient(); then the success output.  A
\* failure to write the file is a CONFIGURATION_ERROR.
SetupSave ==
    /\ au.pc = "save"
    /\ \E written \in BOOLEAN :
         au' = IF written
                 THEN [au EXCEPT !.disk = StoredTokenConfig(au.forceUnsafeSsl),
                                 !.saves = @ + 1,
                                 !.clientInstance = "null",
                                 !.resets = @ + 1,
                                 !.pc = "done", !.exit = 0]
                 ELSE [au EXCEPT !.pc = "handle_error",
                                 !.error = AuthError("CONFIGURATION_ERROR", 1,
                                                     "plain")]
    /\ UNCHANGED <<updateVars, del, pg>>

\* catch (err) { handleError(err, format) }: process.exit(1)
AuthHandleError ==
    /\ au.pc = "handle_error"
    /\ au' = [au EXCEPT !.pc = "exit1", !.exit = 1]
    /\ UNCHANGED <<updateVars, del, pg>>

\* After auth setup has ended, a later command runs in a new process (the
\* module state of client.ts is fresh) on the same disk and environment:
\* auth whoami, or any command that calls getClient().
NewCommand ==
    /\ au.cmd = "setup" /\ au.pc \in {"done", "exit1"}
    /\ \E c \in {"whoami", "client"} :
         au' = [au EXCEPT !.cmd = c, !.pc = "command",
                          !.clientInstance = "null", !.allowInsecure = FALSE,
                          !.error = NoAuthError, !.exit = -1,
                          !.requests = <<>>]
    /\ UNCHANGED <<updateVars, del, pg>>

\* whoamiHandler: loadGlobalConfig, getApiToken(globalConfig), resetClient,
\* getClient.  Any other command: getClient() -> createClient().
CommandBuildsClient ==
    /\ au.pc = "command"
    /\ LET token  == IF au.cmd = "whoami" /\ au.disk.exists
                       THEN GetApiToken(au.disk, au.environment)
                       ELSE [ok |-> TRUE, error |-> NoAuthError]
           client == CreateClient(au.disk, au.environment)
       IN  au' = IF ~token.ok
                   THEN [au EXCEPT !.pc = "handle_error", !.error = token.error]
                 ELSE IF ~client.ok
                   THEN [au EXCEPT !.pc = "handle_error", !.error = client.error]
                 ELSE [au EXCEPT !.pc = "request", !.clientInstance = "client"]
    /\ UNCHANGED <<updateVars, del, pg>>

\* The command's request with the client: answered or failed.
CommandRequest ==
    /\ au.pc = "request"
    /\ \E ok \in BOOLEAN :
         au' = IF ok
                 THEN [au EXCEPT !.pc = "done", !.exit = 0,
                                 !.requests = Append(@, "request")]
                 ELSE [au EXCEPT !.pc = "handle_error",
                                 !.requests = Append(@, "request"),
                                 !.error = AuthError("API_ERROR", 500, "plain")]
    /\ UNCHANGED <<updateVars, del, pg>>

NextAuth ==
    \/ SetupStart
    \/ SetupOverwrite
    \/ SetupPrompt
    \/ VerifyUser
    \/ VerifyUsersId
    \/ VerifyInfo
    \/ SetupDisableSsl
    \/ SetupSave
    \/ AuthHandleError
    \/ NewCommand
    \/ CommandBuildsClient
    \/ CommandRequest

SpecAuth == InitAuth /\ [][NextAuth]_vars

\* C25: after auth setup has stored the token in the configuration (field
\* token, no token_env_var), every later command that builds the client
\* obtains the token and goes on to its request, whatever the environment.
C25_StoredTokenIsUsed ==
    (/\ au.cmd \in {"whoami", "client"}
     /\ au.saves = 1
     /\ au.disk.token = "stored"
     /\ au.disk.token_env_var = "absent"
     /\ au.pc # "command")
      => /\ au.clientInstance = "client"
         /\ au.error.type # "CONFIGURATION_ERROR"

\* C30: auth setup writes the configuration and resets the client only
\* after verification has succeeded, and at most once; when the overwrite
\* is declined or verification fails (the SSL-disabled retry, made at most
\* once, declined or failed) the configuration on disk and the cached
\* client are as they were.
C30_SavesOnlyAfterVerification ==
    au.cmd = "setup" =>
      /\ (au.saves > 0 \/ au.resets > 0 \/ au.disk # au.disk0) => au.verified
      /\ au.saves <= 1 /\ au.resets = au.saves
      /\ au.verifyCalls <= 2
      /\ au.verifyCalls = 2
           => (getFormat(au.format) = "human" /\ ~au.insecure
                 /\ au.forceUnsafeSsl)
      /\ au.declined = "overwrite"
           => (au.pc = "done" /\ au.verifyCalls = 0 /\ au.requests = <<>>)
      /\ au.declined = "ssl"
           => (au.pc \in {"handle_error", "exit1"} /\ au.verifyCalls = 1
                 /\ isSSLError(au.error))
      /\ (au.declined # "none" \/ au.pc \in {"handle_error", "exit1"})
           => /\ au.disk = au.disk0
              /\ au.clientInstance = "null"
              /\ au.saves = 0 /\ au.resets = 0
      /\ au.saves = 1 => au.pc = "done"

C30_Witness ==
    /\ au.cmd = "setup"
    /\ au.pc = "exit1"
    /\ au.verifyCalls = 2
    /\ au.disk0 = EnvVarConfig
    /\ au.disk = au.disk0

====
